---- MODULE Spec2Model ----
(***************************************************************************)
(* Model of mathstralpix: the screenshot -> OCR -> LaTeX detection ->      *)
(* sanitization -> render/clipboard pipeline of src/main.py (the editor    *)
(* entry point) and src/src/mistral_mathpix/main.py (the package entry     *)
(* point).  Texts are sequences of one-character strings, so that the      *)
(* regular expressions of the source are modelled by what they match.      *)
(***************************************************************************)
EXTENDS Integers, Sequences, FiniteSets, TLC

-----------------------------------------------------------------------------
(* Characters and literal strings                                          *)

BS == "\\"

NL == "\n"

\* [a-zA-Z] of the patterns of looks_like_latex
Letters ==
    {"a","b","c","d","e","f","g","h","i","j","k","l","m","n","o","p","q","r",
     "s","t","u","v","w","x","y","z","A","B","C","D","E","F","G","H","I","J",
     "K","L","M","N","O","P","Q","R","S","T","U","V","W","X","Y","Z"}

\* \s of re and the characters str.strip() removes
Whitespace == {" ", "\n", "\t", "\r"}

S_begin == <<BS,"b","e","g","i","n","{">>

S_end == <<BS,"e","n","d","{">>

S_document == <<"d","o","c","u","m","e","n","t">>

S_documentclass == <<BS,"d","o","c","u","m","e","n","t","c","l","a","s","s">>

S_align == <<"a","l","i","g","n">>

S_aligned == <<"a","l","i","g","n","e","d">>

S_equation == <<"e","q","u","a","t","i","o","n">>

S_matrix == <<"m","a","t","r","i","x">>

S_bmatrix == <<"b","m","a","t","r","i","x">>

S_cases == <<"c","a","s","e","s">>

\* fr'\\begin{{{env}}}' and fr'\\end{{{env}}}'
BeginMarker(env) == S_begin \o env \o <<"}">>

EndMarker(env) == S_end \o env \o <<"}">>

\* process_image's sentinel for a response whose pages are all blank
NO_TEXT == <<"N","o"," ","t","e","x","t"," ","f","o","u","n","d"," ","i","n",
             " ","i","m","a","g","e">>

-----------------------------------------------------------------------------
(* Literal matching, as re does it: leftmost, non-overlapping               *)

\* the literal p occurs in s at position i
OccursAt(s, i, p) ==
    /\ i >= 1
    /\ i + Len(p) - 1 <= Len(s)
    /\ \A k \in 1..Len(p) : s[i + k - 1] = p[k]

\* position of the first occurrence of p in s at or after i, 0 if none
RECURSIVE Find(_, _, _)
Find(s, p, i) ==
    IF i + Len(p) - 1 > Len(s) THEN 0
    ELSE IF OccursAt(s, i, p) THEN i
    ELSE Find(s, p, i + 1)

Contains(s, p) == Find(s, p, 1) # 0

StartsWith(s, p) == OccursAt(s, 1, p)

EndsWith(s, p) == Len(p) <= Len(s) /\ OccursAt(s, Len(s) - Len(p) + 1, p)

\* the rest of s from position i on
Tail_(s, i) == SubSeq(s, i, Len(s))

\* re.sub(p, r, s) for a literal pattern p, scanning from position i
RECURSIVE SubFrom(_, _, _, _)
SubFrom(s, p, r, i) ==
    LET j == Find(s, p, i)
    IN  IF j = 0 THEN Tail_(s, i)
        ELSE SubSeq(s, i, j - 1) \o r \o SubFrom(s, p, r, j + Len(p))

Sub(s, p, r) == SubFrom(s, p, r, 1)

\* len(re.findall(p, s)) for a literal pattern p
RECURSIVE CountFrom(_, _, _)
CountFrom(s, p, i) ==
    LET j == Find(s, p, i)
    IN  IF j = 0 THEN 0 ELSE 1 + CountFrom(s, p, j + Len(p))

Count(s, p) == CountFrom(s, p, 1)

\* re.sub(p|q, '', s) for two literals: at each position p is tried before q
RECURSIVE SubAltFrom(_, _, _, _)
SubAltFrom(s, p, q, i) ==
    IF i > Len(s) THEN <<>>
    ELSE IF OccursAt(s, i, p) THEN SubAltFrom(s, p, q, i + Len(p))
    ELSE IF OccursAt(s, i, q) THEN SubAltFrom(s, p, q, i + Len(q))
    ELSE <<s[i]>> \o SubAltFrom(s, p, q, i + 1)

SubAlt(s, p, q) == SubAltFrom(s, p, q, 1)

-----------------------------------------------------------------------------
(* looks_like_latex: src/main.py 199-224, the same text in                  *)
(* src/src/mistral_mathpix/main.py 43-68                                    *)

\* a run of characters none of which is a newline ('.' without re.DOTALL)
NoNewline(s, a, b) == \A k \in a..b : s[k] # NL

\* r'\\[a-zA-Z]+{' and r'\\[a-zA-Z]+\[': a backslash, one or more letters, c
CommandWith(s, c) ==
    \E i \in 1..Len(s) : \E j \in (i + 2)..Len(s) :
        /\ s[i] = BS
        /\ s[j] = c
        /\ \A k \in (i + 1)..(j - 1) : s[k] \in Letters

\* open .* close, for literals open and close
Delimited(s, open, close) ==
    \E i \in 1..Len(s) : \E j \in (i + Len(open))..Len(s) :
        /\ OccursAt(s, i, open)
        /\ OccursAt(s, j, close)
        /\ NoNewline(s, i + Len(open), j - 1)

NumPatterns == 10

\* whether re accepts latex_patterns[k] as a regular expression.  r'\\[' is a
\* backslash followed by an unterminated character set, r'\\(' a backslash
\* followed by an unterminated group, r'\\)' a backslash followed by an
\* unbalanced parenthesis: re.search raises re.error for each of the three.
PatternCompiles(k) == k \notin {7, 9, 10}

\* re.search(latex_patterns[k], s) finds a match (for the patterns re accepts)
PatternMatches(k, s) ==
    CASE k = 1 -> CommandWith(s, "{")
      [] k = 2 -> CommandWith(s, "[")
      [] k = 3 -> Delimited(s, <<"$","$">>, <<"$","$">>)
      [] k = 4 -> Delimited(s, <<"$">>, <<"$">>)
      [] k = 5 -> Delimited(s, S_begin, <<"}">>)
      [] k = 6 -> Delimited(s, S_end, <<"}">>)
      [] k = 8 -> Contains(s, <<BS,"]">>)
      [] OTHER -> FALSE

\* any(re.search(pattern, text) for pattern in latex_patterns): the generator
\* is consumed in list order and stops at the first match; a pattern that re
\* rejects raises out of any()
RECURSIVE AnyPatternFrom(_, _)
AnyPatternFrom(s, k) ==
    IF k > NumPatterns THEN "False"
    ELSE IF ~PatternCompiles(k) THEN "re.error"
    ELSE IF PatternMatches(k, s) THEN "True"
    ELSE AnyPatternFrom(s, k + 1)

looks_like_latex(text) == AnyPatternFrom(text, 1)

-----------------------------------------------------------------------------
(* sanitize_latex: src/main.py 226-263                                      *)

BEGIN_DOCUMENT == BeginMarker(S_document)

END_DOCUMENT == EndMarker(S_document)

\* re.sub(r'\\begin{document}.*?\\end{document}', '', text, flags=re.DOTALL)
RECURSIVE RemoveDocumentEnvFrom(_, _)
RemoveDocumentEnvFrom(s, i) ==
    LET b == Find(s, BEGIN_DOCUMENT, i)
        e == IF b = 0 THEN 0 ELSE Find(s, END_DOCUMENT, b + Len(BEGIN_DOCUMENT))
    IN  IF e = 0 THEN Tail_(s, i)
        ELSE SubSeq(s, i, b - 1) \o RemoveDocumentEnvFrom(s, e + Len(END_DOCUMENT))

RemoveDocumentEnv(s) == RemoveDocumentEnvFrom(s, 1)

\* re.sub(r'\\documentclass.*?\n', '', text): up to and including the first
\* newline after the declaration; no newline, no match
RECURSIVE RemoveDocumentclassFrom(_, _)
RemoveDocumentclassFrom(s, i) ==
    LET d == Find(s, S_documentclass, i)
        n == IF d = 0 THEN 0 ELSE Find(s, <<NL>>, d + Len(S_documentclass))
    IN  IF n = 0 THEN Tail_(s, i)
        ELSE SubSeq(s, i, d - 1) \o RemoveDocumentclassFrom(s, n + 1)

RemoveDocumentclass(s) == RemoveDocumentclassFrom(s, 1)

RemoveStandaloneDocument(s) == Sub(Sub(s, BEGIN_DOCUMENT, <<>>), END_DOCUMENT, <<>>)

AlignedToAlign(s) ==
    Sub(Sub(s, BeginMarker(S_aligned), BeginMarker(S_align)),
        EndMarker(S_aligned), EndMarker(S_align))

environments == <<S_align, S_equation, S_matrix, S_bmatrix, S_cases>>

\* the loop body deleting only when there are more begins than ends
CloseEnvironmentIfMoreBegins(s, env) ==
    LET begins == Count(s, BeginMarker(env))
        ends == Count(s, EndMarker(env))
    IN  IF begins > ends THEN SubAlt(s, BeginMarker(env), EndMarker(env)) ELSE s

\* one pass of the loop body for environment env
CloseEnvironment(s, env) ==
    LET begins == Count(s, BeginMarker(env))
        ends == Count(s, EndMarker(env))
    IN  IF begins # ends THEN SubAlt(s, BeginMarker(env), EndMarker(env)) ELSE s

\* for env in environments: ..., from the k-th environment on
RECURSIVE CloseEnvironmentsFrom(_, _)
CloseEnvironmentsFrom(s, k) ==
    IF k > Len(environments) THEN s
    ELSE CloseEnvironmentsFrom(CloseEnvironment(s, environments[k]), k + 1)

CloseEnvironments(s) == CloseEnvironmentsFrom(s, 1)

\* re.sub(r'\s+', ' ', text)
RECURSIVE CollapseWhitespaceFrom(_, _)
CollapseWhitespaceFrom(s, i) ==
    IF i > Len(s) THEN <<>>
    ELSE IF s[i] \in Whitespace
         THEN IF i > 1 /\ s[i - 1] \in Whitespace
              THEN CollapseWhitespaceFrom(s, i + 1)
              ELSE <<" ">> \o CollapseWhitespaceFrom(s, i + 1)
         ELSE <<s[i]>> \o CollapseWhitespaceFrom(s, i + 1)

CollapseWhitespace(s) == CollapseWhitespaceFrom(s, 1)

\* str.strip()
RECURSIVE LStrip(_)
LStrip(s) ==
    IF s # <<>> /\ Head(s) \in Whitespace THEN LStrip(Tail(s)) ELSE s

RECURSIVE RStrip(_)
RStrip(s) ==
    IF s # <<>> /\ s[Len(s)] \in Whitespace
    THEN RStrip(SubSeq(s, 1, Len(s) - 1))
    ELSE s

Strip(s) == RStrip(LStrip(s))

sanitize_latex(text) ==
    Strip(CollapseWhitespace(CloseEnvironments(AlignedToAlign(
        RemoveStandaloneDocument(RemoveDocumentclass(RemoveDocumentEnv(text)))))))

-----------------------------------------------------------------------------
(* Input texts                                                              *)

X_frac_1_2 == <<BS,"f","r","a","c","{","1","}","{","2","}">>

X_x_squared == <<"$","x","^","2","$">>

X_hello_world == <<"h","e","l","l","o"," ","w","o","r","l","d">>

X_dollar_x == <<"$","x","$">>

X_documentclass == S_documentclass \o <<"{","a","r","t","i","c","l","e","}">>

\* \documentclass{article}\begin{document}$x$\end{document}
X_full_document == X_documentclass \o BEGIN_DOCUMENT \o X_dollar_x \o END_DOCUMENT

\* \frac{a}{b} = c
X_frac_a_b == <<BS,"f","r","a","c","{","a","}","{","b","}"," ","="," ","c">>

\* $a<newline>b$
X_two_line_math == <<"$","a",NL,"b","$">>

Examples ==
    { <<>>, X_hello_world, NO_TEXT, X_frac_1_2, X_x_squared, X_full_document,
      X_frac_a_b, X_two_line_math,
      <<BS,"[">>, <<BS,"]">>, <<BS,"(">>, <<BS,")">>,
      <<BS,"s","q","r","t","[","3","]">>,
      BeginMarker(S_aligned) \o <<"x">> \o EndMarker(S_aligned) }

\* the pieces longer inputs are put together from
Fragments ==
    { <<"x">>, X_dollar_x, <<NL>>, <<" ">>, <<BS,"[">>,
      S_begin \o <<"a","l">>, <<"i","g","n","}">>,
      BeginMarker(S_align), EndMarker(S_align),
      BeginMarker(S_equation),
      BEGIN_DOCUMENT, END_DOCUMENT, X_documentclass }

MaxChunks == 3

RECURSIVE Concats(_)
Concats(n) ==
    IF n = 0 THEN {<<>>}
    ELSE LET shorter == Concats(n - 1)
         IN  shorter \cup {p \o f : p \in shorter, f \in Fragments}

Inputs == Examples \cup Concats(MaxChunks)

-----------------------------------------------------------------------------
(* What the collaborators can answer                                        *)

\* "Error: Failed to encode image"
ERR_ENCODE ==
    <<"E","r","r","o","r",":"," ","F","a","i","l","e","d"," ","t","o"," ",
      "e","n","c","o","d","e"," ","i","m","a","g","e">>

\* "Error: No text found in image"
ERR_NO_PAGES ==
    <<"E","r","r","o","r",":"," ","N","o"," ","t","e","x","t"," ","f","o",
      "u","n","d"," ","i","n"," ","i","m","a","g","e">>

\* "Error processing image: "
ERR_PREFIX ==
    <<"E","r","r","o","r"," ","p","r","o","c","e","s","s","i","n","g"," ",
      "i","m","a","g","e",":"," ">>

\* str(e) of the exception the OCR service raised: "timed out" and
\* "quota $0 of $5"
ServiceMessages ==
    { <<"t","i","m","e","d"," ","o","u","t">>,
      <<"q","u","o","t","a"," ","$","0"," ","o","f"," ","$","5">> }

\* \begin{al\begin{equation}ign}x
X_nested_begin ==
    S_begin \o <<"a","l">> \o BeginMarker(S_equation) \o <<"i","g","n","}","x">>

\* the page texts the OCR service can return (joined and stripped, not blank)
OcrTexts ==
    { X_hello_world, X_frac_a_b, X_x_squared, X_full_document,
      BeginMarker(S_align) \o <<"x">>, X_nested_begin }

\* what the user can type into the editor: y^2 and \begin{align}y
EditTexts == { <<"y","^","2">>, BeginMarker(S_align) \o <<"y">> }

\* how often render_equation runs in one editor session
MaxRenders == 2

Threads == 1..MaxRenders

\* latex_render_<timestamp>.png, one path per second of the clock
Paths == 1..MaxRenders

-----------------------------------------------------------------------------
(* State                                                                    *)

VARIABLES
    input,          \* the text the two functions are applied to
    fpc,            \* "input", "classified", "sanitized", "resanitized",
                    \* "wrapped"; "off"
    cls,            \* what looks_like_latex(input) did
    san,            \* sanitize_latex(input)
    san2,           \* sanitize_latex(san)
    latex_content,  \* what _render_thread embeds for the fragment input
    pnglatex_text,  \* what render_latex gives to pnglatex for the text input
    entry,          \* "editor": src/main.py, "package": mistral_mathpix/main.py
    pc,             \* where main() is
    apiKey,         \* MISTRAL_API_KEY is set
    screenshot,     \* the temporary screenshot file: "absent", "exists"
    text,           \* what process_image returned
    ocrFailed,      \* process_image returned one of its error strings
    isLatex,        \* what looks_like_latex(text) did in main: "none" before
    clipboard,      \* the texts given to xclip
    notifications,  \* the titles given to send_notification, in order
    rendererInputs, \* the fragments given to pdflatex / pnglatex
    renderFailed,   \* a render attempt produced no image
    outcome,        \* how main() ended: "none", "exit1", "returned", "exception"
    latex_text,     \* LatexEditorApp.latex_text
    editorText,     \* LatexEditorApp.editor.text
    output_file,    \* LatexEditorApp.output_file, 0 for None
    result_file,    \* result_file of launch_latex_editor, 0 for None
    appState,       \* "none", "running", "stopping", "stopped"
    autoPending,    \* the Clock.schedule_once of build has not fired yet
    thr,            \* each render thread: "idle", "start", "compiled",
                    \* "assigned", "open", "done"
    dst,            \* the path each render thread has open for writing
    files,          \* the render directory: "absent", "partial", "complete"
    clock           \* the second of the latest render timestamp

fnVars == <<input, fpc, cls, san, san2, latex_content, pnglatex_text>>

mainVars ==
    <<entry, pc, apiKey, screenshot, text, ocrFailed, isLatex, clipboard,
      notifications, rendererInputs, renderFailed, outcome>>

editorVars ==
    <<latex_text, editorText, output_file, result_file, appState, autoPending,
      thr, dst, files, clock>>

vars == <<fnVars, mainVars, editorVars>>

\* the editor before LatexEditorApp is constructed
EditorUnused ==
    /\ latex_text = <<>>
    /\ editorText = <<>>
    /\ output_file = 0
    /\ result_file = 0
    /\ appState = "none"
    /\ autoPending = FALSE
    /\ thr = [t \in Threads |-> "idle"]
    /\ dst = [t \in Threads |-> 0]
    /\ files = [p \in Paths |-> "absent"]
    /\ clock = 0

\* main() before its first statement
MainUnstarted ==
    /\ screenshot = "absent"
    /\ text = <<>>
    /\ ocrFailed = FALSE
    /\ isLatex = "none"
    /\ clipboard = {}
    /\ notifications = <<>>
    /\ rendererInputs = {}
    /\ renderFailed = FALSE
    /\ outcome = "none"

FnUnused ==
    /\ input = <<>>
    /\ fpc = "off"
    /\ cls = "none"
    /\ san = <<>>
    /\ san2 = <<>>
    /\ latex_content = <<>>
    /\ pnglatex_text = <<>>

Init ==
    /\ entry \in {"editor", "package"}
    /\ apiKey \in BOOLEAN
    /\ pc = "start"
    /\ MainUnstarted
    /\ EditorUnused
    /\ FnUnused

-----------------------------------------------------------------------------
(* Helpers of main()                                                        *)

\* send_notification(title, ...): src/main.py 129-151
Notify(ns, title) == Append(ns, title)

\* not text or text == "No text found in image"
NoText(t) == t = <<>> \/ t = NO_TEXT

\* the statements of process_image, by what the collaborators answer
OcrResults ==
    {[failed |-> TRUE, text |-> ERR_ENCODE], [failed |-> TRUE, text |-> ERR_NO_PAGES]}
    \cup {[failed |-> TRUE, text |-> ERR_PREFIX \o m] : m \in ServiceMessages}
    \cup {[failed |-> FALSE, text |-> NO_TEXT]}
    \cup {[failed |-> FALSE, text |-> t] : t \in OcrTexts}

\* the four answers of flameshot; open(temp_file, 'wb') has created the file
\* before flameshot runs
CaptureOutcomes == {"ok", "empty", "CalledProcessError", "Exception"}

\* edited_text of build and reset_editor: the math delimiters taken off
CleanForEditing(t) ==
    LET inner(k) == Strip(SubSeq(t, k + 1, Len(t) - k))
    IN  IF StartsWith(t, <<"$","$">>) /\ EndsWith(t, <<"$","$">>) THEN inner(2)
        ELSE IF StartsWith(t, <<"$">>) /\ EndsWith(t, <<"$">>) THEN inner(1)
        ELSE IF StartsWith(t, <<BS,"[">>) /\ EndsWith(t, <<BS,"]">>) THEN inner(2)
        ELSE IF StartsWith(t, <<BS,"(">>) /\ EndsWith(t, <<BS,")">>) THEN inner(2)
        ELSE t

\* latex_content of _render_thread
WrapForPdflatex(latex) ==
    IF \/ StartsWith(latex, <<"$">>)
       \/ StartsWith(latex, <<BS,"[">>)
       \/ StartsWith(latex, S_begin)
    THEN latex
    ELSE <<"$">> \o latex \o <<"$">>

\* the text render_latex gives to pnglatex
WrapForPnglatex(t) ==
    IF \/ StartsWith(Strip(t), <<BS,"[">>)
       \/ StartsWith(Strip(t), <<"$","$">>)
       \/ StartsWith(Strip(t), <<"$">>)
    THEN t
    ELSE <<BS,"[">> \o t \o <<BS,"]">>

-----------------------------------------------------------------------------
(* main() of src/main.py                                                    *)

\* lines 583-595
Main_ApiKey ==
    /\ entry = "editor" /\ pc = "start"
    /\ IF apiKey
       THEN /\ pc' = "capture"
            /\ UNCHANGED <<notifications, outcome>>
       ELSE /\ notifications' = Notify(notifications, "Configuration Error")
            /\ outcome' = "exit1"
            /\ pc' = "done"
    /\ UNCHANGED <<entry, apiKey, screenshot, text, ocrFailed, isLatex,
                   clipboard, rendererInputs, renderFailed>>
    /\ UNCHANGED <<fnVars, editorVars>>

\* lines 597-600 with capture_screen, lines 153-197
Main_Capture ==
    /\ entry = "editor" /\ pc = "capture"
    /\ \E got \in CaptureOutcomes :
        /\ screenshot' = "exists"
        /\ IF got = "ok"
           THEN /\ pc' = "ocr"
                /\ UNCHANGED <<notifications, outcome>>
           ELSE /\ notifications' = Notify(notifications, "Screenshot Failed")
                /\ outcome' = "exit1"
                /\ pc' = "done"
    /\ UNCHANGED <<entry, apiKey, text, ocrFailed, isLatex, clipboard,
                   rendererInputs, renderFailed>>
    /\ UNCHANGED <<fnVars, editorVars>>

\* lines 602-607 with process_image, lines 74-127
Main_Ocr ==
    /\ entry = "editor" /\ pc = "ocr"
    /\ \E r \in OcrResults :
        /\ text' = r.text
        /\ ocrFailed' = r.failed
    /\ pc' = "classify"
    /\ UNCHANGED <<entry, apiKey, screenshot, isLatex, clipboard, notifications,
                   rendererInputs, renderFailed, outcome>>
    /\ UNCHANGED <<fnVars, editorVars>>

\* the clipboard after lines 625-629: the text is given to xclip, whatever
\* xclip does with it
ClipboardBeforeEditor(clip, t) == clip \cup {t}

\* lines 609-632 up to app.run(), with LatexEditorApp.__init__ and build
\* (lines 269-357), and the handlers and the finally clause (lines 662-671)
\* on the paths that end here
Main_Classify ==
    /\ entry = "editor" /\ pc = "classify"
    /\ IF NoText(text)
       THEN /\ notifications' = Notify(notifications, "OCR Failed")
            /\ outcome' = "exit1"
            /\ screenshot' = "absent"
            /\ pc' = "done"
            /\ UNCHANGED <<isLatex, clipboard, editorVars>>
       ELSE /\ isLatex' = looks_like_latex(text)
            /\ CASE isLatex' = "re.error" ->
                    /\ notifications' = Notify(notifications, "OCR Failed")
                    /\ outcome' = "returned"
                    /\ screenshot' = "absent"
                    /\ pc' = "done"
                    /\ UNCHANGED <<clipboard, editorVars>>
                 [] isLatex' = "True" ->
                    /\ clipboard' = ClipboardBeforeEditor(clipboard, text)
                    /\ latex_text' = sanitize_latex(text)
                    /\ editorText' = CleanForEditing(latex_text')
                    /\ appState' = "running"
                    /\ autoPending' = TRUE
                    /\ pc' = "editor"
                    /\ UNCHANGED <<notifications, outcome, screenshot,
                                   output_file, result_file, thr, dst, files,
                                   clock>>
                 [] OTHER ->
                    /\ clipboard' = clipboard \cup {text}
                    /\ \E copied \in BOOLEAN :
                        notifications' =
                            IF copied
                            THEN Notify(notifications, "OCR Successful")
                            ELSE Notify(Notify(notifications, "Clipboard Error"),
                                        "OCR Successful")
                    /\ outcome' = "returned"
                    /\ screenshot' = "absent"
                    /\ pc' = "done"
                    /\ UNCHANGED editorVars
    /\ UNCHANGED <<entry, apiKey, text, ocrFailed, rendererInputs, renderFailed>>
    /\ UNCHANGED fnVars

\* lines 634-671, after launch_latex_editor has returned
Main_Finish ==
    /\ entry = "editor" /\ pc = "finish"
    /\ notifications' = Notify(notifications, "OCR Successful")
    /\ screenshot' = "absent"
    /\ outcome' = "returned"
    /\ pc' = "done"
    /\ UNCHANGED <<entry, apiKey, text, ocrFailed, isLatex, clipboard,
                   rendererInputs, renderFailed>>
    /\ UNCHANGED <<fnVars, editorVars>>

-----------------------------------------------------------------------------
(* LatexEditorApp and launch_latex_editor: src/main.py 265-581              *)

EditorRunning == pc = "editor" /\ appState = "running"

\* the render threads are daemon threads: they run until main() has ended
ThreadsAlive == pc \in {"editor", "finish"}

Started == {t \in Threads : thr[t] # "idle"}

\* render_equation, lines 359-364: a new thread for every call
StartThread ==
    /\ Cardinality(Started) < MaxRenders
    /\ LET t == Cardinality(Started) + 1
       IN  thr' = [thr EXCEPT ![t] = "start"]

\* line 355: the render scheduled by build
Editor_AutoRender ==
    /\ EditorRunning /\ autoPending
    /\ autoPending' = FALSE
    /\ StartThread
    /\ UNCHANGED <<latex_text, editorText, output_file, result_file, appState,
                   dst, files, clock>>
    /\ UNCHANGED <<fnVars, mainVars>>

\* the Render button, lines 314-315 and 359-364
Editor_RenderButton ==
    /\ EditorRunning
    /\ StartThread
    /\ UNCHANGED <<latex_text, editorText, output_file, result_file, appState,
                   autoPending, dst, files, clock>>
    /\ UNCHANGED <<fnVars, mainVars>>

\* the user types into the TextInput of lines 305-307
Editor_Edit ==
    /\ EditorRunning
    /\ \E t \in EditTexts : editorText # t /\ editorText' = t
    /\ UNCHANGED <<latex_text, output_file, result_file, appState, autoPending,
                   thr, dst, files, clock>>
    /\ UNCHANGED <<fnVars, mainVars>>

\* reset_editor, lines 529-543
Editor_Reset ==
    /\ EditorRunning
    /\ editorText' = CleanForEditing(latex_text)
    /\ UNCHANGED <<latex_text, output_file, result_file, appState, autoPending,
                   thr, dst, files, clock>>
    /\ UNCHANGED <<fnVars, mainVars>>

\* _render_thread, lines 367-436: the text is read, wrapped, written and
\* compiled, the PDF converted; ok is whether an image came out of it
Render_Compile(t) ==
    /\ ThreadsAlive /\ thr[t] = "start"
    /\ rendererInputs' = rendererInputs \cup {WrapForPdflatex(Strip(editorText))}
    /\ \E ok \in BOOLEAN :
        /\ thr' = [thr EXCEPT ![t] = IF ok THEN "compiled" ELSE "done"]
        /\ renderFailed' = (renderFailed \/ ~ok)
    /\ UNCHANGED <<entry, pc, apiKey, screenshot, text, ocrFailed, isLatex,
                   clipboard, notifications, outcome>>
    /\ UNCHANGED <<latex_text, editorText, output_file, result_file, appState,
                   autoPending, dst, files, clock>>
    /\ UNCHANGED fnVars

\* line 441: the timestamp is that of the latest render or a later second
Render_Assign(t) ==
    /\ ThreadsAlive /\ thr[t] = "compiled"
    /\ \E p \in Paths :
        /\ p \in {clock, clock + 1}
        /\ output_file' = p
        /\ clock' = p
    /\ thr' = [thr EXCEPT ![t] = "assigned"]
    /\ UNCHANGED <<latex_text, editorText, result_file, appState, autoPending,
                   dst, files>>
    /\ UNCHANGED <<fnVars, mainVars>>

\* lines 444-445: open(self.output_file, 'wb') creates or truncates the file
Render_Open(t) ==
    /\ ThreadsAlive /\ thr[t] = "assigned"
    /\ dst' = [dst EXCEPT ![t] = output_file]
    /\ files' = [files EXCEPT ![output_file] = "partial"]
    /\ thr' = [thr EXCEPT ![t] = "open"]
    /\ UNCHANGED <<latex_text, editorText, output_file, result_file, appState,
                   autoPending, clock>>
    /\ UNCHANGED <<fnVars, mainVars>>

\* lines 446-457: the image is written and the file closed
Render_Write(t) ==
    /\ ThreadsAlive /\ thr[t] = "open"
    /\ files' = [files EXCEPT ![dst[t]] = "complete"]
    /\ thr' = [thr EXCEPT ![t] = "done"]
    /\ UNCHANGED <<latex_text, editorText, output_file, result_file, appState,
                   autoPending, dst, clock>>
    /\ UNCHANGED <<fnVars, mainVars>>

\* close_app, lines 545-552
Editor_Close ==
    /\ EditorRunning
    /\ result_file' = output_file
    /\ appState' = "stopping"
    /\ UNCHANGED <<latex_text, editorText, output_file, autoPending, thr, dst,
                   files, clock>>
    /\ UNCHANGED <<fnVars, mainVars>>

\* on_stop, lines 554-558, after close_app or when the window is closed; then
\* app.run() returns and launch_latex_editor returns result_file (579-581)
Editor_OnStop ==
    /\ pc = "editor" /\ appState \in {"running", "stopping"}
    /\ result_file' = output_file
    /\ appState' = "stopped"
    /\ pc' = "finish"
    /\ UNCHANGED <<entry, apiKey, screenshot, text, ocrFailed, isLatex,
                   clipboard, notifications, rendererInputs, renderFailed,
                   outcome>>
    /\ UNCHANGED <<latex_text, editorText, output_file, autoPending, thr, dst,
                   files, clock>>
    /\ UNCHANGED fnVars

-----------------------------------------------------------------------------
(* main() of src/src/mistral_mathpix/main.py                                *)

\* lines 100-107: no notification, this entry point has no send_notification
Pkg_ApiKey ==
    /\ entry = "package" /\ pc = "start"
    /\ IF apiKey
       THEN pc' = "capture" /\ UNCHANGED outcome
       ELSE pc' = "done" /\ outcome' = "exit1"
    /\ UNCHANGED <<entry, apiKey, screenshot, text, ocrFailed, isLatex,
                   clipboard, notifications, rendererInputs, renderFailed>>
    /\ UNCHANGED <<fnVars, editorVars>>

\* lines 113-116 with capture_screen, lines 12-41
Pkg_Capture ==
    /\ entry = "package" /\ pc = "capture"
    /\ \E got \in CaptureOutcomes :
        /\ screenshot' = "exists"
        /\ IF got = "ok"
           THEN pc' = "ocr" /\ UNCHANGED outcome
           ELSE pc' = "done" /\ outcome' = "exit1"
    /\ UNCHANGED <<entry, apiKey, text, ocrFailed, isLatex, clipboard,
                   notifications, rendererInputs, renderFailed>>
    /\ UNCHANGED <<fnVars, editorVars>>

\* lines 118-123 with process_image, ocr_processor.py 36-89
Pkg_Ocr ==
    /\ entry = "package" /\ pc = "ocr"
    /\ \E r \in OcrResults :
        /\ text' = r.text
        /\ ocrFailed' = r.failed
    /\ pc' = "render"
    /\ UNCHANGED <<entry, apiKey, screenshot, isLatex, clipboard, notifications,
                   rendererInputs, renderFailed, outcome>>
    /\ UNCHANGED <<fnVars, editorVars>>

\* the copy made only when the render succeeded
ClipboardOnlyIfRendered(clip, t, rendered) ==
    IF ~NoText(t) /\ rendered THEN clip \cup {t} ELSE clip

\* the clipboard after lines 138-148; rendered is whether render_latex
\* returned a path
ClipboardAfterRender(clip, t, rendered) ==
    IF ~NoText(t) THEN clip \cup {t} ELSE clip

\* lines 125-151 with render_latex, lines 70-98
Pkg_Render ==
    /\ entry = "package" /\ pc = "render"
    /\ IF NoText(text)
       THEN /\ outcome' = "returned"
            /\ UNCHANGED <<isLatex, clipboard, rendererInputs, renderFailed>>
       ELSE /\ isLatex' = looks_like_latex(text)
            /\ CASE isLatex' = "re.error" ->
                    /\ outcome' = "exception"
                    /\ UNCHANGED <<clipboard, rendererInputs, renderFailed>>
                 [] isLatex' = "True" ->
                    /\ rendererInputs' = rendererInputs \cup {WrapForPnglatex(text)}
                    /\ \E rendered \in BOOLEAN :
                        /\ renderFailed' = ~rendered
                        /\ clipboard' = ClipboardAfterRender(clipboard, text, rendered)
                    /\ outcome' = "returned"
                 [] OTHER ->
                    /\ clipboard' = ClipboardAfterRender(clipboard, text, FALSE)
                    /\ outcome' = "returned"
                    /\ UNCHANGED <<rendererInputs, renderFailed>>
    /\ screenshot' = "absent"
    /\ pc' = "done"
    /\ UNCHANGED <<entry, apiKey, text, ocrFailed, notifications>>
    /\ UNCHANGED <<fnVars, editorVars>>

-----------------------------------------------------------------------------
(* A run of either entry point                                              *)

Next ==
    \/ Main_ApiKey
    \/ Main_Capture
    \/ Main_Ocr
    \/ Main_Classify
    \/ Main_Finish
    \/ Editor_AutoRender
    \/ Editor_RenderButton
    \/ Editor_Edit
    \/ Editor_Reset
    \/ Editor_Close
    \/ Editor_OnStop
    \/ \E t \in Threads : Render_Compile(t)
    \/ \E t \in Threads : Render_Assign(t)
    \/ \E t \in Threads : Render_Open(t)
    \/ \E t \in Threads : Render_Write(t)
    \/ Pkg_ApiKey
    \/ Pkg_Capture
    \/ Pkg_Ocr
    \/ Pkg_Render

Spec == Init /\ [][Next]_vars

-----------------------------------------------------------------------------
(* The two functions applied to an input text                               *)

InitFn ==
    /\ input \in Inputs
    /\ fpc = "input"
    /\ cls = "none"
    /\ san = <<>>
    /\ san2 = <<>>
    /\ latex_content = <<>>
    /\ pnglatex_text = <<>>
    /\ entry = "editor"
    /\ apiKey = FALSE
    /\ pc = "off"
    /\ MainUnstarted
    /\ EditorUnused

ApplyClassify ==
    /\ fpc = "input"
    /\ cls' = looks_like_latex(input)
    /\ fpc' = "classified"
    /\ UNCHANGED <<input, san, san2, latex_content, pnglatex_text, mainVars, editorVars>>

ApplySanitize ==
    /\ fpc = "classified"
    /\ san' = sanitize_latex(input)
    /\ fpc' = "sanitized"
    /\ UNCHANGED <<input, cls, san2, latex_content, pnglatex_text, mainVars, editorVars>>

ApplySanitizeAgain ==
    /\ fpc = "sanitized"
    /\ san2' = sanitize_latex(san)
    /\ fpc' = "resanitized"
    /\ UNCHANGED <<input, cls, san, latex_content, pnglatex_text, mainVars, editorVars>>

\* the two wrappers on the same text: _render_thread reads the editor's text
\* stripped (src/main.py 369-381), render_latex takes the text as it is
\* (mistral_mathpix/main.py 88-90)
ApplyWrap ==
    /\ fpc = "resanitized"
    /\ latex_content' = WrapForPdflatex(Strip(input))
    /\ pnglatex_text' = WrapForPnglatex(input)
    /\ fpc' = "wrapped"
    /\ UNCHANGED <<input, cls, san, san2, mainVars, editorVars>>

NextFn == ApplyClassify \/ ApplySanitize \/ ApplySanitizeAgain \/ ApplyWrap

SpecFn == InitFn /\ [][NextFn]_vars

-----------------------------------------------------------------------------
(* Properties                                                               *)

Classified == fpc \in {"classified", "sanitized", "resanitized", "wrapped"}

Sanitized == fpc \in {"sanitized", "resanitized", "wrapped"}

\* the surface markers of math notation the classifier is to detect: a
\* command followed by { or [, a $...$ or $$...$$ run (over any characters),
\* a \begin{...} or \end{...} marker, one of \[ \] \( \)
HasMarker(s) ==
    \/ CommandWith(s, "{")
    \/ CommandWith(s, "[")
    \/ Count(s, <<"$">>) >= 2
    \/ \E i \in 1..Len(s) :
        /\ OccursAt(s, i, S_begin) \/ OccursAt(s, i, S_end)
        /\ \E j \in (i + 1)..Len(s) : s[j] = "}"
    \/ \E c \in {"[", "]", "(", ")"} : Contains(s, <<BS, c>>)

\* C1: for every input text, looks_like_latex returns True or False and does
\* not raise.
C1_ClassifierNeverRaises == Classified => cls \in {"True", "False"}

\* C2: a run whose capture succeeded and whose OCR text is not empty and has
\* no math-notation marker ends with that text given to xclip, nothing given
\* to the renderer, and the editor never started.
C2_PlainTextIsCopied ==
    (pc = "done" /\ text # <<>> /\ text # NO_TEXT /\ ~ocrFailed /\ ~HasMarker(text))
        => (text \in clipboard /\ rendererInputs = {} /\ appState = "none")

\* C3: when main() has ended, on whatever path, the temporary screenshot file
\* is not on disk.
C3_ScreenshotRemoved == pc = "done" => screenshot = "absent"

\* C4: a run of main() that has ended has called send_notification exactly
\* once.
C4_ExactlyOneNotification == pc = "done" => Len(notifications) = 1

\* C5: when the text was classified as notation and a render attempt failed,
\* the run is not aborted and the text as extracted (not the sanitized one)
\* has been given to xclip.
C5_CopiedDespiteRenderFailure ==
    (isLatex = "True" /\ renderFailed)
        => (text \in clipboard /\ outcome \in {"none", "returned"})

\* a run of either entry point that ended after a failed render of a text
\* whose sanitized form differs from it
C5_Witness ==
    /\ pc = "done" /\ isLatex = "True" /\ renderFailed
    /\ text \in clipboard /\ sanitize_latex(text) # text

\* C6: sanitizing a sanitized text changes nothing: sanitize_latex is
\* idempotent.
C6_SanitizeIdempotent == fpc = "resanitized" => san2 = san

\* C7: the output of sanitize_latex has as many begin-markers as end-markers
\* of each of align, equation, matrix, bmatrix, cases.
C7_OutputBalanced ==
    Sanitized =>
        \A k \in 1..Len(environments) :
            Count(san, BeginMarker(environments[k]))
                = Count(san, EndMarker(environments[k]))

\* C8: \documentclass{article}\begin{document}$x$\end{document} is sanitized
\* to $x$.
C8_FullDocumentKeepsBody ==
    (Sanitized /\ input = X_full_document) => san = X_dollar_x

\* C9: looks_like_latex returns True for every text that holds a marker.
C9_MarkerGivesTrue == (Classified /\ HasMarker(input)) => cls = "True"

\* C10: looks_like_latex returns False for every text that holds no marker.
C10_NoMarkerGivesFalse == (Classified /\ ~HasMarker(input)) => cls = "False"

\* the openers a fragment may already start with: $, \[ and \begin{
StartsWithOpener(f) ==
    \/ StartsWith(f, <<"$">>)
    \/ StartsWith(f, <<BS,"[">>)
    \/ StartsWith(f, S_begin)

\* w is f inside one pair of math delimiters
InOnePair(w, f) ==
    \/ w = <<"$">> \o f \o <<"$">>
    \/ w = <<"$","$">> \o f \o <<"$","$">>
    \/ w = <<BS,"[">> \o f \o <<BS,"]">>
    \/ w = <<BS,"(">> \o f \o <<BS,")">>

\* C11: in both wrappers a fragment that starts with $, \[ or \begin{ is
\* embedded unchanged, and any other fragment is put in exactly one pair of
\* math delimiters.
C11_WrapOnlyWithoutOpener ==
    fpc = "wrapped" =>
        IF StartsWithOpener(Strip(input))
        THEN latex_content = Strip(input) /\ pnglatex_text = input
        ELSE InOnePair(latex_content, Strip(input)) /\ InOnePair(pnglatex_text, input)

\* no render image has been written, whole or in part
NoArtifact == \A p \in Paths : files[p] = "absent"

\* C12: a run of src/main.py in which the text was classified as notation
\* and no render artifact was produced ends with a failure notification, not
\* with "OCR Successful".
C12_FailureNotifiedWithoutArtifact ==
    (entry = "editor" /\ pc = "done" /\ isLatex = "True" /\ NoArtifact)
        => /\ notifications # <<>>
           /\ notifications[Len(notifications)] # "OCR Successful"

\* a fragment with no document marker and as many begin- as end-markers of
\* every kind of the checklist
WellFormed(d) ==
    /\ ~Contains(d, BEGIN_DOCUMENT)
    /\ ~Contains(d, END_DOCUMENT)
    /\ \A k \in 1..Len(environments) :
        Count(d, BeginMarker(environments[k]))
            = Count(d, EndMarker(environments[k]))

\* C13: every fragment given to the renderer, at the first render and at
\* every later one, is sanitized: no document marker, balanced environments.
C13_RendererGetsSanitized == \A d \in rendererInputs : WellFormed(d)

\* the render threads that are between their start and their end
Rendering == {t \in Threads : thr[t] \in {"start", "compiled", "assigned", "open"}}

\* C14: at most one execution of _render_thread is under way at any time, and
\* no two of them have the same output path open for writing.
C14_OneRenderAtATime ==
    /\ Cardinality(Rendering) <= 1
    /\ \A t, u \in Threads :
        (t # u /\ thr[t] = "open" /\ thr[u] = "open") => dst[t] # dst[u]

\* C15: when the editor is closed after a render was written completely,
\* launch_latex_editor returns the path of a completely written image.
C15_CloseReturnsWrittenArtifact ==
    [][(pc = "editor" /\ pc' = "finish" /\ \E p \in Paths : files[p] = "complete")
        => (result_file' # 0 /\ files'[result_file'] = "complete")]_vars

\* C16: a run in which process_image failed ends without the classifier
\* having run, with nothing rendered and nothing given to xclip.
C16_OcrFailureAborts ==
    (pc = "done" /\ ocrFailed)
        => /\ isLatex = "none"
           /\ clipboard = {}
           /\ rendererInputs = {}
           /\ appState = "none"

\* the positions of s at which the literal p starts
Occurrences(s, p) == {i \in 1..Len(s) : OccursAt(s, i, p)}

\* position i of s lies inside an occurrence of p
InsideOccurrence(s, i, p) ==
    \E j \in Occurrences(s, p) : j <= i /\ i < j + Len(p)

\* s with every character that lies inside a begin- or end-marker of env left
\* out, and every other character kept, in order
RECURSIVE WithoutMarkersFrom(_, _, _)
WithoutMarkersFrom(s, env, i) ==
    IF i > Len(s) THEN <<>>
    ELSE IF \/ InsideOccurrence(s, i, BeginMarker(env))
            \/ InsideOccurrence(s, i, EndMarker(env))
         THEN WithoutMarkersFrom(s, env, i + 1)
         ELSE <<s[i]>> \o WithoutMarkersFrom(s, env, i + 1)

\* what the claim says of one kind: the markers go when their counts differ,
\* and nothing changes when the counts are equal
DeleteUnmatched(s, env) ==
    IF Cardinality(Occurrences(s, BeginMarker(env)))
        # Cardinality(Occurrences(s, EndMarker(env)))
    THEN WithoutMarkersFrom(s, env, 1)
    ELSE s

\* that, for the kinds of the checklist in their order, from the k-th on
RECURSIVE DeleteUnmatchedFrom(_, _)
DeleteUnmatchedFrom(s, k) ==
    IF k > Len(environments) THEN s
    ELSE DeleteUnmatchedFrom(DeleteUnmatched(s, environments[k]), k + 1)

\* the text the loop of sanitize_latex starts from
BeforeLoop(t) ==
    AlignedToAlign(RemoveStandaloneDocument(RemoveDocumentclass(RemoveDocumentEnv(t))))

====
